---- MODULE Spec2Model ----
(***************************************************************************)
(* slot_game_utils.core: the payline evaluator check_win, the result-code  *)
(* parser extract_winline_spinwin_data and the wild predicates.            *)
(*                                                                         *)
(* The functions are pure, so the state machine is a caller: from the idle *)
(* state it makes one call with arguments drawn from bounded sets, the     *)
(* call's arguments and its result are the state, and Return goes back to  *)
(* idle.  Python strings are sequences of one-character strings, so that   *)
(* str(), the f-string, str.split and int() are computed character by      *)
(* character.  A Python list of symbols is a sequence; wild_ids is used by *)
(* the code only through membership and is a set.                          *)
(***************************************************************************)
EXTENDS Integers, Sequences, FiniteSets

VARIABLES op, args, ret

vars == <<op, args, ret>>

\* ------------------------------------------------------------------ bounds

\* Longest line the caller passes.
MaxLen == 3

\* Most '-'-separated segments of a code string the caller passes to the parser.
MaxParts == 5

\* The largest board: rows and symbols per row.
MaxRows == 2

MaxCols == 2

\* The most paylines one game evaluates.
MaxLines == 2

\* Symbol ids: a negative one, a one-digit one and a two-digit one.
Symbols == {0 - 1, 2, 10}

Lengths == 1..MaxLen

\* Payouts of pay-table entries: two values, so that of two candidates either
\* may pay more, or both the same.
Payouts == {1, 2}

\* Winline ids the caller passes.
LineIds == {1, 2}

\* Win amounts the caller passes to the parser.
Amounts == {0} \cup Payouts

\* The segments the caller's code strings are made of: empty, a kind tag, a
\* plain integer, a zero-padded one, and one with whitespace and a sign.
Segments == {<<>>, <<"B">>, <<"3">>, <<"0", "2">>, <<" ", "+", "1">>}

RECURSIVE Join(_)
\* The segments with '-' between them.
Join(parts) ==
    IF Len(parts) = 0 THEN <<>>
    ELSE IF Len(parts) = 1 THEN parts[1]
    ELSE parts[1] \o <<"-">> \o Join(Tail(parts))

\* What the caller joins into a code string: one to MaxParts segments (the
\* empty string is the one empty segment).
PartLists == UNION {[1..n -> Segments] : n \in 1..MaxParts}

Lines == UNION {[1..n -> Symbols] : n \in 0..MaxLen}

WildIdSets == SUBSET Symbols

\* A pay table is a dict of dicts: a function from the match lengths it has to
\* functions from the symbols it has under that length to payouts.
EmptyTable == [k \in {} |-> 0]

PutEntry(t, k, s, v) ==
    LET inner == IF k \in DOMAIN t THEN t[k] ELSE [x \in {} |-> 0]
        inner2 == [x \in (DOMAIN inner) \cup {s} |-> IF x = s THEN v ELSE inner[x]]
    IN  [y \in (DOMAIN t) \cup {k} |-> IF y = k THEN inner2 ELSE t[y]]

Entries == Lengths \X Symbols \X Payouts

\* The pay tables the caller passes: those with at most two entries, which is
\* what the two lookups of one evaluation can tell apart.
PayTables ==
    {EmptyTable}
    \cup {PutEntry(EmptyTable, e[1], e[2], e[3]) : e \in Entries}
    \cup {PutEntry(PutEntry(EmptyTable, e[1], e[2], e[3]), f[1], f[2], f[3]) :
            e \in Entries, f \in Entries}

\* ----------------------------------------------------------------- strings

Digits == <<"0", "1", "2", "3", "4", "5", "6", "7", "8", "9">>

DigitChars == {Digits[i] : i \in 1..Len(Digits)}

DigitVal(c) == (CHOOSE i \in 1..Len(Digits) : Digits[i] = c) - 1

RECURSIVE NatStr(_)
\* The decimal digits of a natural number, most significant first.
NatStr(n) ==
    IF n < Len(Digits) THEN <<Digits[n + 1]>>
    ELSE NatStr(n \div Len(Digits)) \o <<Digits[(n % Len(Digits)) + 1]>>

\* str(n) of a Python int.
Str(n) == IF n < 0 THEN <<"-">> \o NatStr(0 - n) ELSE NatStr(n)

\* f"B-{str(length)}-{str(flag)}-{str(symbol)}"
FormatCode(length, flag, symbol) ==
    <<"B", "-">> \o Str(length) \o <<"-">> \o Str(flag) \o <<"-">> \o Str(symbol)

RECURSIVE SplitFrom(_, _, _, _)
SplitFrom(s, i, cur, acc) ==
    IF i > Len(s) THEN Append(acc, cur)
    ELSE IF s[i] = "-" THEN SplitFrom(s, i + 1, <<>>, Append(acc, cur))
    ELSE SplitFrom(s, i + 1, Append(cur, s[i]), acc)

\* code.split('-'): the pieces between the separators, empty pieces kept; the
\* empty string splits into one empty piece.
Split(s) == SplitFrom(s, 1, <<>>, <<>>)

RECURSIVE LStrip(_)
LStrip(s) == IF Len(s) > 0 /\ Head(s) = " " THEN LStrip(Tail(s)) ELSE s

RECURSIVE RStrip(_)
RStrip(s) ==
    IF Len(s) > 0 /\ s[Len(s)] = " " THEN RStrip(SubSeq(s, 1, Len(s) - 1)) ELSE s

RECURSIVE DigitsValue(_, _, _)
\* The value of the digit groups of an int() argument from position i on, or -1
\* when it is not digits separated by single underscores.
DigitsValue(s, i, acc) ==
    IF i > Len(s) THEN acc
    ELSE IF s[i] \in DigitChars
         THEN DigitsValue(s, i + 1, acc * Len(Digits) + DigitVal(s[i]))
    ELSE IF s[i] = "_" /\ i > 1 /\ i < Len(s)
            /\ s[i - 1] \in DigitChars /\ s[i + 1] \in DigitChars
         THEN DigitsValue(s, i + 1, acc)
    ELSE 0 - 1

\* int() taking the empty string for 0.
PyIntEmptyIsZero(s) ==
    LET t == RStrip(LStrip(s))
        signed == Len(t) > 0 /\ Head(t) \in {"+", "-"}
        body == IF signed THEN Tail(t) ELSE t
        mag == IF Len(body) = 0 THEN (IF signed THEN 0 - 1 ELSE 0)
               ELSE DigitsValue(body, 1, 0)
    IN  IF mag < 0 THEN [ok |-> FALSE, val |-> 0]
        ELSE [ok |-> TRUE,
              val |-> IF signed /\ Head(t) = "-" THEN 0 - mag ELSE mag]

\* int(s) of a Python str: surrounding whitespace is stripped, one sign is
\* allowed, then decimal digits (leading zeros allowed, single underscores
\* between digits); anything else is a ValueError.
PyInt(s) ==
    LET t == RStrip(LStrip(s))
        signed == Len(t) > 0 /\ Head(t) \in {"+", "-"}
        body == IF signed THEN Tail(t) ELSE t
        mag == IF Len(body) = 0 THEN 0 - 1 ELSE DigitsValue(body, 1, 0)
    IN  IF mag < 0 THEN [ok |-> FALSE, val |-> 0]
        ELSE [ok |-> TRUE,
              val |-> IF signed /\ Head(t) = "-" THEN 0 - mag ELSE mag]

\* ------------------------------------------------ extract_winline_spinwin_data

\* The try block reading the symbol from part 2 instead of part 3.
ParseWinlinesWrongPart(winline_id, code, win_amount) ==
    LET code_parts == Split(code)
    IN  IF Len(code_parts) < 4 THEN <<>>
        ELSE LET combination_count == PyInt(code_parts[2])
                 symbol_id == PyInt(code_parts[3])
             IN  IF combination_count.ok /\ symbol_id.ok
                 THEN <<winline_id, combination_count.val, symbol_id.val, win_amount>>
                 ELSE <<>>

\* The try block also converting the wild flag, part 2.
ParseWinlinesFlagRequired(winline_id, code, win_amount) ==
    LET code_parts == Split(code)
    IN  IF Len(code_parts) < 4 THEN <<>>
        ELSE LET combination_count == PyInt(code_parts[2])
                 wild_flag == PyInt(code_parts[3])
                 symbol_id == PyInt(code_parts[4])
             IN  IF combination_count.ok /\ wild_flag.ok /\ symbol_id.ok
                 THEN <<winline_id, combination_count.val, symbol_id.val, win_amount>>
                 ELSE <<>>

\* The try block: the winlines list, or [] when the code has fewer than four
\* parts or int() raises on part 1 or part 3.
ParseWinlines(winline_id, code, win_amount) ==
    LET code_parts == Split(code)
    IN  IF Len(code_parts) < 4 THEN <<>>
        ELSE LET combination_count == PyInt(code_parts[2])
                 symbol_id == PyInt(code_parts[4])
             IN  IF combination_count.ok /\ symbol_id.ok
                 THEN <<winline_id, combination_count.val, symbol_id.val, win_amount>>
                 ELSE <<>>

\* The function leaving spinWins empty when the code did not parse.
extract_dropping_amount_on_error(winline_id, code, win_amount) ==
    LET winlines == ParseWinlines(winline_id, code, win_amount)
    IN  [winlines |-> winlines,
         spinWins |-> IF winlines = <<>> THEN <<>> ELSE <<win_amount>>]

\* The function: the winlines of the try block, and spinWins, which holds the
\* win amount whether or not the code parsed.
extract_winline_spinwin_data(winline_id, code, win_amount) ==
    [winlines |-> ParseWinlines(winline_id, code, win_amount),
     spinWins |-> <<win_amount>>]

\* ------------------------------------------------------------ wild predicates

\* The mask comparing each symbol with the smallest wild id only.
check_wild_symbols_first_id(line, wild_ids) ==
    [i \in 1..Len(line) |->
        /\ wild_ids # {}
        /\ line[i] = CHOOSE w \in wild_ids : \A v \in wild_ids : w <= v]

\* [symbol in wild_ids for symbol in line]
check_wild_symbols(line, wild_ids) ==
    [i \in 1..Len(line) |-> line[i] \in wild_ids]

\* np.all in place of np.any.
check_wild_presence_all(line, wild_ids) ==
    IF \A i \in 1..Len(line) : line[i] \in wild_ids THEN 1 ELSE 0

\* int(np.any(np.isin(line, wild_ids)))
check_wild_presence(line, wild_ids) ==
    IF \E i \in 1..Len(line) : line[i] \in wild_ids THEN 1 ELSE 0

\* ------------------------------------------------------------------ check_win

RECURSIVE FirstNonWildFrom(_, _, _)
\* The scan for the first non-wild position, 0-based; line_len when there is none.
FirstNonWildFrom(wilds, i, line_len) ==
    IF i >= line_len THEN line_len
    ELSE IF ~wilds[i + 1] THEN i
    ELSE FirstNonWildFrom(wilds, i + 1, line_len)

FirstNonWild(wilds, line_len) == FirstNonWildFrom(wilds, 0, line_len)

RECURSIVE ExtendRunResuming(_, _, _, _, _)
\* The run loop without its break: a mismatch is skipped and the count resumes.
ExtendRunResuming(line, wilds, symbol_to_match, i, n) ==
    IF i >= Len(line) THEN n
    ELSE IF wilds[i + 1] \/ line[i + 1] = symbol_to_match
         THEN ExtendRunResuming(line, wilds, symbol_to_match, i + 1, n + 1)
    ELSE ExtendRunResuming(line, wilds, symbol_to_match, i + 1, n)

RECURSIVE ExtendRun(_, _, _, _, _)
\* The run loop: i is the 0-based position looked at, n the sequence_length so far.
ExtendRun(line, wilds, symbol_to_match, i, n) ==
    IF i >= Len(line) THEN n
    ELSE IF wilds[i + 1] \/ line[i + 1] = symbol_to_match
         THEN ExtendRun(line, wilds, symbol_to_match, i + 1, n + 1)
    ELSE n

SequenceLength(line, wilds, first_non_wild) ==
    ExtendRun(line, wilds, line[first_non_wild + 1], first_non_wild + 1, 1)

\* A failed lookup priced below every payout.
MissValueNegative == 0 - 1

\* What a failed pay-table lookup is priced at.
MissValue == 0

\* A lookup that refuses match lengths below two.
LookupMinTwo(pay_table, length, symbol) ==
    IF length >= 2 /\ length \in DOMAIN pay_table /\ symbol \in DOMAIN pay_table[length]
    THEN pay_table[length][symbol]
    ELSE MissValue

\* try: pay_table[length][symbol]  except Exception: 0
Lookup(pay_table, length, symbol) ==
    IF length \in DOMAIN pay_table /\ symbol \in DOMAIN pay_table[length]
    THEN pay_table[length][symbol]
    ELSE MissValue

\* The whole line instead of the slice.
PrefixWholeLine(line, n) == line

\* line[0:n]
Prefix(line, n) == SubSeq(line, 1, n)

\* The alternative candidate is looked at only for this many leading wilds.
MinWildSequence == 2

\* The comparison the wrong way round.
AltBeatsMainReversed(alt_win, main_win) == alt_win < main_win

\* The comparison taking ties.
AltBeatsMainOnTie(alt_win, main_win) == alt_win >= main_win

\* Whether the alternative candidate replaces the main one.
AltBeatsMain(alt_win, main_win) == alt_win > main_win

Returned(win, code_01, line_id, path) ==
    LET x == extract_winline_spinwin_data(line_id, code_01, win)
    IN  [status |-> "ok", win |-> win, code |-> code_01,
         winlines |-> x.winlines, spinWins |-> x.spinWins, path |-> path]

Raised(error) ==
    [status |-> error, win |-> 0, code |-> <<>>,
     winlines |-> <<>>, spinWins |-> <<>>, path |-> "raise"]

\* The all-wild branch pricing and naming the last symbol instead of the first.
AllWildResultLastSymbol(line, line_id, pay_table) ==
    LET line_len == Len(line)
        symbol_to_match == line[line_len]
        win == Lookup(pay_table, line_len, symbol_to_match)
    IN  Returned(win, FormatCode(line_len, 1, symbol_to_match), line_id, "all_wild")

\* The all-wild branch.
AllWildResult(line, line_id, pay_table) ==
    LET line_len == Len(line)
        symbol_to_match == line[1]
        win == Lookup(pay_table, line_len, symbol_to_match)
    IN  Returned(win, FormatCode(line_len, 1, symbol_to_match), line_id, "all_wild")

\* The branch with a non-wild position: the main candidate, and the alternative
\* one when there are enough leading wilds.
MixedResult(line, line_id, wilds, wild_ids, pay_table, first_non_wild) ==
    LET symbol_to_match == line[first_non_wild + 1]
        sequence_length == SequenceLength(line, wilds, first_non_wild)
        main_len == sequence_length + first_non_wild
        main_win == Lookup(pay_table, main_len, symbol_to_match)
        main_code == FormatCode(main_len,
                                check_wild_presence(Prefix(line, main_len), wild_ids),
                                symbol_to_match)
        first_symbol == line[1]
        wild_sequence == first_non_wild
        alt_win == Lookup(pay_table, wild_sequence, first_symbol)
    IN  IF first_non_wild > 0 /\ wild_sequence >= MinWildSequence
           /\ AltBeatsMain(alt_win, main_win)
        THEN Returned(alt_win,
                      FormatCode(wild_sequence,
                                 check_wild_presence(Prefix(line, wild_sequence), wild_ids),
                                 first_symbol),
                      line_id, "alt")
        ELSE Returned(main_win, main_code, line_id, "main")

check_win(line, line_id, wilds, wild_ids, pay_table) ==
    LET line_len == Len(line)
        first_non_wild == FirstNonWild(wilds, line_len)
    IN  IF first_non_wild = line_len
        THEN IF line_len = 0
             THEN Raised("IndexError")
             ELSE AllWildResult(line, line_id, pay_table)
        ELSE MixedResult(line, line_id, wilds, wild_ids, pay_table, first_non_wild)

\* ------------------------------------------------------ extract_game_detail

\* The rows taken last to first.
chain_from_iterable_reversed(matrix) ==
    LET RECURSIVE Rev(_)
        Rev(m) == IF m = <<>> THEN <<>> ELSE Rev(Tail(m)) \o Head(m)
    IN  Rev(matrix)

\* list(chain.from_iterable(matrix))
RECURSIVE chain_from_iterable(_)
chain_from_iterable(matrix) ==
    IF matrix = <<>> THEN <<>>
    ELSE Head(matrix) \o chain_from_iterable(Tail(matrix))

\* The game ticket; winlines is accepted and not used.
extract_game_detail(total_win, trigger_type, matrix, winlines, spin_wins) ==
    [win         |-> total_win,
     triggerType |-> trigger_type,
     reels       |-> chain_from_iterable(matrix),
     spinWins    |-> spin_wins]

\* Boards of at most MaxRows rows of at most MaxCols symbols, ragged ones included.
Cells == {1, 2}

Rows == UNION {[1..n -> Cells] : n \in 0..MaxCols}

Boards == UNION {[1..n -> Rows] : n \in 0..MaxRows}

TriggerTypes == {"normal", "bonus"}

WinlineLists == {<<>>, <<<<1, 3, 2, 2>>>>}

SpinWinLists == {<<>>, <<2>>}

\* ------------------------------------------------------ the multi-line game

\* The paylines, wild ids and pay tables a game is played with.
GameLines ==
    {<<>>, <<2>>, <<2, 2, 2>>, <<10, 2, 0 - 1>>, <<10, 10, 2>>, <<0 - 1, 2>>}

GameWildIds == {{}, {10}}

GameTables ==
    {PutEntry(PutEntry(EmptyTable, 1, 2, 1), 3, 2, 2),
     PutEntry(PutEntry(EmptyTable, 2, 10, 2), 3, 2, 1),
     PutEntry(EmptyTable, 1, 0 - 1, 1)}

\* The loop body with all_spin_wins.extend outside the if.
accumulate_line_extending_always(acc, r) ==
    IF r.win > 0
    THEN [acc EXCEPT !.total_win = @ + r.win,
                     !.all_winlines = Append(@, r.winlines),
                     !.all_spin_wins = @ \o r.spinWins]
    ELSE [acc EXCEPT !.all_spin_wins = @ \o r.spinWins]

\* if win > 0: total_win += win; all_winlines.append(winlines);
\*             all_spin_wins.extend(spinWins)
accumulate_line(acc, r) ==
    IF r.win > 0
    THEN [acc EXCEPT !.total_win = @ + r.win,
                     !.all_winlines = Append(@, r.winlines),
                     !.all_spin_wins = @ \o r.spinWins]
    ELSE acc

\* -------------------------------------------------------------- the caller

NoArgs == [none |-> TRUE]

Init ==
    /\ op = "idle"
    /\ args = NoArgs
    /\ ret = NoArgs

\* The caller builds the game's wild ids and pay table.
SetUp ==
    /\ op = "idle"
    /\ \E wild_ids \in WildIdSets, pay_table \in PayTables :
         args' = [wild_ids |-> wild_ids, pay_table |-> pay_table]
    /\ op' = "ready"
    /\ ret' = NoArgs

\* The caller evaluates one line: the mask comes from check_wild_symbols, as
\* check_win's documentation and every caller in the repository have it.
CallCheckWin ==
    /\ op = "ready"
    /\ \E line \in Lines, line_id \in LineIds :
         LET wilds == check_wild_symbols(line, args.wild_ids)
         IN  /\ args' = [line |-> line, line_id |-> line_id, wilds |-> wilds,
                         wild_ids |-> args.wild_ids, pay_table |-> args.pay_table]
             /\ ret' = check_win(line, line_id, wilds, args.wild_ids, args.pay_table)
    /\ op' = "check_win"

\* The caller parses a code string of its own, which it joins from segments;
\* args.parts records the segments and is no argument of the call.
CallExtract ==
    /\ op = "idle"
    /\ \E winline_id \in LineIds, parts \in PartLists, win_amount \in Amounts :
         LET code == Join(parts)
         IN  /\ args' = [winline_id |-> winline_id, code |-> code,
                         win_amount |-> win_amount, parts |-> parts]
             /\ ret' = extract_winline_spinwin_data(winline_id, code, win_amount)
    /\ op' = "extract"

\* The caller asks for the wild mask of a line.
CallCheckWildSymbols ==
    /\ op = "idle"
    /\ \E line \in Lines, wild_ids \in WildIdSets :
         /\ args' = [line |-> line, wild_ids |-> wild_ids]
         /\ ret' = [mask |-> check_wild_symbols(line, wild_ids)]
    /\ op' = "wild_symbols"

\* The caller asks whether a line holds a wild.
CallCheckWildPresence ==
    /\ op = "idle"
    /\ \E line \in Lines, wild_ids \in WildIdSets :
         /\ args' = [line |-> line, wild_ids |-> wild_ids]
         /\ ret' = [present |-> check_wild_presence(line, wild_ids)]
    /\ op' = "wild_presence"

\* The caller builds a ticket.
CallExtractGameDetail ==
    /\ op = "idle"
    /\ \E total_win \in Amounts, trigger_type \in TriggerTypes, matrix \in Boards,
          winlines \in WinlineLists, spin_wins \in SpinWinLists :
         /\ args' = [total_win |-> total_win, trigger_type |-> trigger_type,
                     matrix |-> matrix, winlines |-> winlines,
                     spin_wins |-> spin_wins]
         /\ ret' = extract_game_detail(total_win, trigger_type, matrix,
                                       winlines, spin_wins)
    /\ op' = "game_detail"

\* total_win = 0; all_winlines = []; all_spin_wins = []
StartGame ==
    /\ op = "idle"
    /\ \E wild_ids \in GameWildIds, pay_table \in GameTables :
         args' = [wild_ids |-> wild_ids, pay_table |-> pay_table, lines |-> <<>>]
    /\ ret' = [status |-> "ok", total_win |-> 0,
               all_winlines |-> <<>>, all_spin_wins |-> <<>>]
    /\ op' = "game"

\* One iteration of the loop over the paylines; args.lines holds the lines
\* taken so far.  An exception of check_win leaves the loop with the
\* accumulators as they were.
ProcessLine ==
    /\ op = "game"
    /\ ret.status = "ok"
    /\ Len(args.lines) < MaxLines
    /\ \E line \in GameLines :
         LET line_id == Len(args.lines) + 1
             wilds == check_wild_symbols(line, args.wild_ids)
             r == check_win(line, line_id, wilds, args.wild_ids, args.pay_table)
         IN  /\ args' = [args EXCEPT !.lines = Append(@, line)]
             /\ ret' = IF r.status = "ok"
                       THEN accumulate_line(ret, r)
                       ELSE [ret EXCEPT !.status = r.status]
    /\ UNCHANGED op

Return ==
    /\ op \in {"check_win", "extract", "wild_symbols", "wild_presence",
              "game_detail", "game"}
    /\ op' = "idle"
    /\ args' = NoArgs
    /\ ret' = NoArgs

Next ==
    \/ SetUp
    \/ CallCheckWin
    \/ CallExtract
    \/ CallCheckWildSymbols
    \/ CallCheckWildPresence
    \/ CallExtractGameDetail
    \/ StartGame
    \/ ProcessLine
    \/ Return

Spec == Init /\ [][Next]_vars

\* ------------------------------------------------ what the claims speak of

\* A check_win call that returned (did not raise).
CheckWinReturned == op = "check_win" /\ ret.status = "ok"

\* The line has a position the mask does not mark wild.
HasNonWild == \E i \in 1..Len(args.line) : ~args.wilds[i]

\* p: the 0-based index of the first non-wild position.
P == CHOOSE q \in 0..(Len(args.line) - 1) :
        /\ ~args.wilds[q + 1]
        /\ \A j \in 1..q : args.wilds[j]

\* The anchor line[p].
AnchorAt(p) == args.line[p + 1]

\* Positions p .. p+r-1 are a block in which every position after p is wild or
\* equal to the anchor.
IsRun(p, r) ==
    \A j \in (p + 2)..(p + r) : args.wilds[j] \/ args.line[j] = AnchorAt(p)

\* runLen: the length of the maximal such block from p.
RunLenAt(p) ==
    CHOOSE r \in 1..(Len(args.line) - p) :
        /\ IsRun(p, r)
        /\ \A r2 \in 1..(Len(args.line) - p) : IsRun(p, r2) => r2 <= r

\* lookup(payTable, k, s): the entry, 0 when the length or the symbol key is absent.
Absent(k, s) ==
    \/ k \notin DOMAIN args.pay_table
    \/ s \notin DOMAIN args.pay_table[k]

PriceOf(k, s) == IF Absent(k, s) THEN 0 ELSE args.pay_table[k][s]

\* mainWin and altWin of a line whose first non-wild position is p.
MainWinAt(p) == PriceOf(p + RunLenAt(p), AnchorAt(p))

AltWinAt(p) == PriceOf(p, args.line[1])

MaxOf(a, b) == IF a >= b THEN a ELSE b

\* The codes "B-{length}-{flag}-{symbol}" with either wild flag.
CodesNaming(length, symbol) ==
    {FormatCode(length, f, symbol) : f \in {0, 1}}

\* ---------------------------------------------------------------------- C1

\* C1: for a non-empty line with a non-wild position, the amount check_win
\* returns is mainWin when p < 2 and max(mainWin, altWin) when p >= 2.
C1_AmountIsHigherCandidate ==
    (op = "check_win" /\ HasNonWild) =>
        LET p == P
        IN  /\ ret.status = "ok"
            /\ ret.win = IF p < 2 THEN MainWinAt(p)
                         ELSE MaxOf(MainWinAt(p), AltWinAt(p))

\* Both candidates pay and the alternative one pays more.
C1_Witness ==
    /\ CheckWinReturned /\ HasNonWild
    /\ LET p == P
           mainWin == MainWinAt(p)
       IN  /\ p >= 2 /\ mainWin > 0 /\ AltWinAt(p) > mainWin
           /\ ret.win = AltWinAt(p)

\* ---------------------------------------------------------------------- C2

\* C2: the main candidate has match length p + runLen, runLen the length of the
\* maximal block from p of positions wild or equal to the anchor; when the main
\* candidate is the result, the amount is payTable[p+runLen][line[p]] (0 if
\* absent) and the code is "B-{p+runLen}-{wildFlag}-{line[p]}".
C2_MainCandidateIsMaximalRun ==
    (CheckWinReturned /\ HasNonWild /\ ret.path = "main") =>
        LET p == P
            runLen == RunLenAt(p)
        IN  /\ ret.win = PriceOf(p + runLen, AnchorAt(p))
            /\ ret.code \in CodesNaming(p + runLen, AnchorAt(p))

\* The run stopped at a mismatch and the anchor occurs again after it.
C2_Witness ==
    /\ CheckWinReturned /\ HasNonWild /\ ret.path = "main"
    /\ LET p == P
           runLen == RunLenAt(p)
       IN  /\ p + runLen < Len(args.line)
           /\ \E j \in (p + runLen + 2)..Len(args.line) : args.line[j] = AnchorAt(p)
    /\ ret.win > 0

\* ---------------------------------------------------------------------- C3

\* C3: for a line of length N >= 1 whose mask is true everywhere, check_win
\* returns code "B-N-1-S" with S = line[0] and amount payTable[N][S], 0 if
\* absent, on the all-wild path, whichever wild ids the line mixes.
C3_AllWildLine ==
    (op = "check_win" /\ Len(args.line) >= 1 /\ ~HasNonWild) =>
        /\ ret.status = "ok"
        /\ ret.path = "all_wild"
        /\ ret.code = FormatCode(Len(args.line), 1, args.line[1])
        /\ ret.win = PriceOf(Len(args.line), args.line[1])

\* An all-wild line of two wild ids whose entries under N differ.
C3_Witness ==
    /\ CheckWinReturned /\ ~HasNonWild
    /\ \E i \in 2..Len(args.line) :
         /\ args.line[i] # args.line[1]
         /\ ~Absent(Len(args.line), args.line[i])
         /\ ~Absent(Len(args.line), args.line[1])
         /\ PriceOf(Len(args.line), args.line[i]) # ret.win

\* ---------------------------------------------------------------------- C4

\* C4: the alternative candidate is the result if and only if p >= 2 and altWin
\* is strictly greater than mainWin, and then the amount is altWin and the code
\* "B-{p}-{wildFlag}-{line[0]}"; otherwise the main candidate's amount and code
\* are returned.
C4_AltReplacesIffStrictlyGreater ==
    (CheckWinReturned /\ HasNonWild) =>
        LET p == P
            mainWin == MainWinAt(p)
            altWin == AltWinAt(p)
        IN  IF p >= 2 /\ altWin > mainWin
            THEN /\ ret.path = "alt"
                 /\ ret.win = altWin
                 /\ ret.code \in CodesNaming(p, args.line[1])
            ELSE /\ ret.path = "main"
                 /\ ret.win = mainWin
                 /\ ret.code \in CodesNaming(p + RunLenAt(p), AnchorAt(p))

\* A tie of two paying candidates: the main one is returned.
C4_Witness ==
    /\ CheckWinReturned /\ HasNonWild
    /\ LET p == P
           mainWin == MainWinAt(p)
       IN  p >= 2 /\ AltWinAt(p) = mainWin /\ mainWin > 0
    /\ ret.path = "main"

\* ---------------------------------------------------------------------- C5

\* The code reads "B-{length}-{flag}-...": its segments 1 and 2 are the decimal
\* numeral of length and the digit of flag.
CodeHasLengthAndFlag(parts, length, flag) ==
    /\ Len(parts) >= 4
    /\ parts[2] = Str(length)
    /\ parts[3] = Str(flag)

\* C5: with the mask of check_wild_symbols, the wild flag of the returned code
\* is 1 if and only if a position of the chosen combination [0, matchLength)
\* holds a wild symbol; it is 0 exactly when p = 0 and the run has no wild.
C5_WildFlagIffWildInCombination ==
    (CheckWinReturned /\ args.wilds = check_wild_symbols(args.line, args.wild_ids)) =>
        LET parts == Split(ret.code)
        IN  \E length \in 1..Len(args.line), flag \in {0, 1} :
              /\ CodeHasLengthAndFlag(parts, length, flag)
              /\ flag = 1 <=> \E i \in 1..length : args.line[i] \in args.wild_ids
              /\ flag = 0 <=>
                   (HasNonWild /\ P = 0 /\ \A i \in 1..RunLenAt(0) : ~args.wilds[i])

\* Flag 0 on a line that holds a wild outside the chosen combination.
C5_Witness ==
    /\ CheckWinReturned
    /\ LET parts == Split(ret.code)
       IN  \E length \in 1..Len(args.line) :
             /\ CodeHasLengthAndFlag(parts, length, 0)
             /\ \E i \in (length + 1)..Len(args.line) : args.wilds[i]

\* ---------------------------------------------------------------------- C6

\* The match length and the symbol the evaluator selected, by the path taken.
SelectedLength ==
    IF ret.path = "all_wild" THEN Len(args.line)
    ELSE IF ret.path = "alt" THEN P
    ELSE P + RunLenAt(P)

SelectedSymbol ==
    IF ret.path = "main" THEN AnchorAt(P) ELSE args.line[1]

\* C6: round trip: for every line of integer symbols, on every path, the
\* winline check_win returns (its code fed back into the parser) is
\* [line_id, matchLength, symbol, amount] for the match length and symbol the
\* evaluator selected.
C6_RoundTrip ==
    CheckWinReturned =>
        ret.winlines = <<args.line_id, SelectedLength, SelectedSymbol, ret.win>>

\* ---------------------------------------------------------------------- C7

\* C7: extract_winline_spinwin_data returns spinWins = [win_amount] whether or
\* not the code parses, and every result of check_win has spinWins = [amount].
C7_SpinWinsIsTheAmount ==
    /\ op = "extract" => ret.spinWins = <<args.win_amount>>
    /\ CheckWinReturned => ret.spinWins = <<ret.win>>

\* A code that does not parse, with a positive amount kept in spinWins.
C7_Witness ==
    /\ op = "extract"
    /\ ret.winlines = <<>>
    /\ args.win_amount > 0
    /\ ret.spinWins = <<args.win_amount>>

\* ---------------------------------------------------------------------- C8

\* What int() makes of each segment the caller uses: the integer, or none.
IntegerSegments == {<<"3">>, <<"0", "2">>, <<" ", "+", "1">>}

SegmentValue(seg) ==
    CASE seg = <<"3">> -> 3
      [] seg = <<"0", "2">> -> 2
      [] seg = <<" ", "+", "1">> -> 1

\* The code has at least four segments and segments 1 and 3 are integers.
WellFormed(parts) ==
    /\ Len(parts) >= 4
    /\ parts[2] \in IntegerSegments
    /\ parts[4] \in IntegerSegments

\* C8: for a code of at least 4 parts whose part 1 and part 3 are integers the
\* parser returns [winline_id, int(part 1), int(part 3), win_amount]; a
\* zero-padded "02" gives the symbol 2.
C8_WellFormedCodeParses ==
    (op = "extract" /\ WellFormed(args.parts)) =>
        ret.winlines = <<args.winline_id, SegmentValue(args.parts[2]),
                         SegmentValue(args.parts[4]), args.win_amount>>

\* "<kind>-3-<flag>-02-<multiplier>" parsed to match length 3 and symbol 2.
C8_Witness ==
    /\ op = "extract"
    /\ Len(args.parts) = 5
    /\ args.parts[2] = <<"3">>
    /\ args.parts[4] = <<"0", "2">>
    /\ ret.winlines = <<args.winline_id, 3, 2, args.win_amount>>

\* ---------------------------------------------------------------------- C9

\* C9: for a malformed code (fewer than 4 parts, or a non-integer part 1 or
\* part 3, the empty string included) the parser returns an empty winline
\* record with spinWins = [win_amount], and the record is empty only then.
C9_MalformedCodeDegrades ==
    op = "extract" =>
        /\ ~WellFormed(args.parts) =>
             (ret.winlines = <<>> /\ ret.spinWins = <<args.win_amount>>)
        /\ ret.winlines = <<>> => ~WellFormed(args.parts)

\* Enough parts and an integer match length, but an empty symbol segment.
C9_Witness ==
    /\ op = "extract"
    /\ Len(args.parts) >= 4
    /\ args.parts[2] \in IntegerSegments
    /\ args.parts[4] = <<>>
    /\ ret.winlines = <<>>
    /\ ret.spinWins = <<args.win_amount>>
    /\ args.win_amount > 0

\* --------------------------------------------------------------------- C10

\* One of the lookups the evaluation makes finds no entry.
SomeLookupMisses ==
    IF ~HasNonWild THEN Absent(Len(args.line), args.line[1])
    ELSE LET p == P
         IN  \/ Absent(p + RunLenAt(p), AnchorAt(p))
             \/ p >= 2 /\ Absent(p, args.line[1])

\* The amount when every missing entry is priced at 0.
AmountWithMissesAtZero ==
    IF ~HasNonWild THEN PriceOf(Len(args.line), args.line[1])
    ELSE LET p == P
             mainWin == MainWinAt(p)
         IN  IF p >= 2 /\ AltWinAt(p) > mainWin THEN AltWinAt(p) ELSE mainWin

\* C10: a pay-table lookup miss in check_win, on any of its three lookups, is
\* not propagated: the candidate is priced at 0, the evaluation completes and
\* a full result is returned whose code names the match length and symbol.
C10_LookupMissIsPricedZero ==
    (op = "check_win" /\ Len(args.line) >= 1 /\ SomeLookupMisses) =>
        /\ ret.status = "ok"
        /\ ret.win = AmountWithMissesAtZero
        /\ ret.code \in CodesNaming(SelectedLength, SelectedSymbol)
        /\ ret.spinWins = <<ret.win>>

\* Both lookups miss, the alternative one under a match length the table has
\* and the main one under a match length it has not: the result pays 0.
C10_Witness ==
    /\ CheckWinReturned /\ HasNonWild
    /\ LET p == P
       IN  /\ p >= 2
           /\ p \in DOMAIN args.pay_table /\ Absent(p, args.line[1])
           /\ (p + RunLenAt(p)) \notin DOMAIN args.pay_table
    /\ ret.win = 0
    /\ ret.path = "main"

\* --------------------------------------------------------------------- C11

\* C11: check_win has no fatal conditions: for every line, the empty line
\* included, with its aligned mask, every wild-id list and every pay table the
\* call returns a result instead of raising.
C11_CheckWinNeverRaises ==
    op = "check_win" => ret.status = "ok"

\* --------------------------------------------------------------------- C12

\* C12: check_wild_symbols returns a mask as long as the line whose entry i is
\* true if and only if line[i] is one of wild_ids; the empty line gives the
\* empty mask and no wild ids give an all-false mask.
C12_MaskMarksWildIds ==
    op = "wild_symbols" =>
        /\ DOMAIN ret.mask = 1..Len(args.line)
        /\ \A i \in 1..Len(args.line) :
             ret.mask[i] <=> \E w \in args.wild_ids : args.line[i] = w
        /\ args.line = <<>> => ret.mask = <<>>
        /\ args.wild_ids = {} => \A i \in DOMAIN ret.mask : ~ret.mask[i]

\* A line holding two different wild ids and a symbol that is not wild.
C12_Witness ==
    /\ op = "wild_symbols"
    /\ \E i, j, k \in 1..Len(args.line) :
         /\ args.line[i] # args.line[j]
         /\ ret.mask[i] /\ ret.mask[j] /\ ~ret.mask[k]

\* --------------------------------------------------------------------- C13

\* C13: check_wild_presence(line, ids) is 1 exactly when the mask
\* check_wild_symbols(line, ids) has a true entry and 0 otherwise; it is 0 for
\* the empty line and for no wild ids.
C13_PresenceIsAnyOfMask ==
    op = "wild_presence" =>
        LET mask == check_wild_symbols(args.line, args.wild_ids)
        IN  /\ ret.present \in {0, 1}
            /\ ret.present = 1 <=> \E i \in DOMAIN mask : mask[i]
            /\ (args.line = <<>> \/ args.wild_ids = {}) => ret.present = 0

\* A wild at the last position only: the mask is not all true, presence is 1.
C13_Witness ==
    /\ op = "wild_presence"
    /\ Len(args.line) >= 2
    /\ args.line[Len(args.line)] \in args.wild_ids
    /\ \A i \in 1..(Len(args.line) - 1) : args.line[i] \notin args.wild_ids
    /\ ret.present = 1

\* --------------------------------------------------------------------- C14

\* The number of symbols in the first n rows of the board.
RECURSIVE RowOffset(_, _)
RowOffset(matrix, n) ==
    IF n = 0 THEN 0 ELSE RowOffset(matrix, n - 1) + Len(matrix[n])

\* C14: extract_game_detail returns a ticket with exactly the fields win,
\* triggerType, reels and spinWins; reels is the row-major concatenation of the
\* board's rows (symbol c of row r sits after all symbols of the rows before r,
\* and the length is the sum of the row lengths), for empty and ragged boards
\* too; win, triggerType and spinWins are the inputs unchanged; and the
\* winlines argument has no effect on the ticket.
C14_TicketFlattensBoard ==
    op = "game_detail" =>
        LET m == args.matrix
        IN  /\ DOMAIN ret = {"win", "triggerType", "reels", "spinWins"}
            /\ Len(ret.reels) = RowOffset(m, Len(m))
            /\ \A r \in 1..Len(m) : \A c \in 1..Len(m[r]) :
                 ret.reels[RowOffset(m, r - 1) + c] = m[r][c]
            /\ ret.win = args.total_win
            /\ ret.triggerType = args.trigger_type
            /\ ret.spinWins = args.spin_wins
            /\ \A w \in WinlineLists :
                 extract_game_detail(args.total_win, args.trigger_type, m, w,
                                     args.spin_wins) = ret

\* A ragged board whose rows differ, with winlines passed in.
C14_Witness ==
    /\ op = "game_detail"
    /\ Len(args.matrix) = 2
    /\ Len(args.matrix[1]) = 1 /\ Len(args.matrix[2]) = 2
    /\ args.matrix[1][1] # args.matrix[2][1]
    /\ args.winlines # <<>>
    /\ Len(ret.reels) = 3

\* --------------------------------------------------------------------- C15

\* The chosen combination has match length 1: the first symbol is not wild and
\* the second, if there is one, is neither wild nor equal to it.
MatchLengthOne ==
    /\ op = "check_win"
    /\ Len(args.line) >= 1
    /\ ~args.wilds[1]
    /\ Len(args.line) >= 2 => (~args.wilds[2] /\ args.line[2] # args.line[1])

\* C15: check_win applies no minimum match length: a line whose combination
\* has match length 1 pays payTable[1][line[0]] when the table defines it and
\* 0 when it does not, so with no length-1 entries it pays 0.
C15_NoMinimumMatchLength ==
    MatchLengthOne =>
        /\ ret.status = "ok"
        /\ ret.win = IF Absent(1, args.line[1]) THEN 0
                     ELSE args.pay_table[1][args.line[1]]
        /\ (1 \notin DOMAIN args.pay_table \/ DOMAIN args.pay_table[1] = {})
              => ret.win = 0

\* A line of several symbols paid from a length-1 entry.
C15_Witness ==
    /\ MatchLengthOne
    /\ Len(args.line) >= 2
    /\ ~Absent(1, args.line[1])
    /\ ret.win > 0

\* --------------------------------------------------------------------- C16

\* (k, s) is a left-anchored combination of the line: s occurs among the first
\* k positions and each of them is wild or equal to s.
LeftAnchored(k, s) ==
    /\ \E i \in 1..k : args.line[i] = s
    /\ \A i \in 1..k : args.wilds[i] \/ args.line[i] = s

\* C16: check_win finds the highest paying combination possible on the line:
\* the returned amount is at least the default-zero pay-table price of every
\* left-anchored combination (k, s) with 1 <= k <= N.
C16_AmountIsHighestPaying ==
    CheckWinReturned =>
        \A k \in 1..Len(args.line) : \A s \in Symbols :
            LeftAnchored(k, s) => ret.win >= PriceOf(k, s)

\* --------------------------------------------------------------------- C18

\* The four-segment code that keeps segments 1 and 3 of the call's code under
\* another kind tag and an empty, non-numeric wild flag.
ReferenceCode == Join(<<<<"T">>, args.parts[2], <<>>, args.parts[4]>>)

\* C18: the result depends on the code only through its segment count (at
\* least 4) and its segments 1 and 3: every code of at least 4 segments gives
\* the winline record of the reference code that agrees with it on segments 1
\* and 3, so any two such codes agreeing there give the same record, whatever
\* the kind tag, the wild flag and the trailing segments are.
C18_OnlySegmentsOneAndThreeMatter ==
    (op = "extract" /\ Len(Split(args.code)) >= 4) =>
        /\ ret.winlines =
             ParseWinlines(args.winline_id, ReferenceCode, args.win_amount)
        /\ ret.spinWins = <<args.win_amount>>

\* A five-segment code whose kind tag is empty, whose wild flag is an integer
\* and whose trailing segment is not, parsed to a record.
C18_Witness ==
    /\ op = "extract"
    /\ Len(Split(args.code)) = 5
    /\ args.parts[1] = <<>>
    /\ PyInt(args.parts[3]).ok
    /\ ~PyInt(args.parts[5]).ok
    /\ ret.winlines # <<>>
    /\ args.code # ReferenceCode

\* --------------------------------------------------------------------- C19

\* The amount check_win returns for the i-th processed line, 0 if it raised.
WinOf(i) ==
    LET line == args.lines[i]
        r == check_win(line, i, check_wild_symbols(line, args.wild_ids),
                       args.wild_ids, args.pay_table)
    IN  IF r.status = "ok" THEN r.win ELSE 0

\* The processed lines with win > 0.
Winners == {i \in 1..Len(args.lines) : WinOf(i) > 0}

RECURSIVE SumSeq(_)
SumSeq(q) == IF q = <<>> THEN 0 ELSE Head(q) + SumSeq(Tail(q))

\* The sum of the amounts of the first n processed lines.
RECURSIVE SumWins(_)
SumWins(n) == IF n = 0 THEN 0 ELSE SumWins(n - 1) + WinOf(n)

\* C19: in the aggregation loop, after any sequence of processed lines,
\* total_win is the sum of all_spin_wins, all_winlines and all_spin_wins are
\* both as long as the number of processed lines with win > 0, and no positive
\* amount is dropped: total_win is the sum of the lines' amounts and the j-th
\* winning line's amount is the j-th spin win.
C19_AggregationKeepsEveryAmount ==
    op = "game" =>
        /\ ret.total_win = SumSeq(ret.all_spin_wins)
        /\ Len(ret.all_winlines) = Len(ret.all_spin_wins)
        /\ Len(ret.all_spin_wins) = Cardinality(Winners)
        /\ ret.total_win = SumWins(Len(args.lines))
        /\ \A i \in Winners :
             ret.all_spin_wins[Cardinality({w \in Winners : w <= i})] = WinOf(i)

\* Two lines processed, the first paying nothing and the second winning.
C19_Witness ==
    /\ op = "game"
    /\ Len(args.lines) = MaxLines
    /\ WinOf(1) = 0
    /\ WinOf(MaxLines) > 0
    /\ ret.total_win > 0

====
